---- MODULE Spec2Model ----
(***************************************************************************)
(* A model of the local Git workflow of GITHUB_AUTOMATION                  *)
(* (src/git_operations.py, called from the routes of src/app.py).          *)
(*                                                                         *)
(* One repository path is modelled.  The state is what the handlers read   *)
(* and write through GitPython and the filesystem: whether the path is a   *)
(* directory / a repository, the commit graph, the local branch heads,     *)
(* HEAD, the index, the working tree, the configured remotes, MERGE_HEAD   *)
(* and the process environment's GITHUB_USERNAME.  Every handler is one    *)
(* action; the git commands it runs are operators on a state record,       *)
(* composed in the order the handler calls them.                           *)
(***************************************************************************)
EXTENDS Naturals, Sequences, FiniteSets

(***************************************************************************)
(* Bounds and input sets.                                                  *)
(***************************************************************************)
\* Largest number of commits a behaviour of each specification may create.
MaxCommits == 1
MaxMergeCommits == 4
MaxWideCommits == 3
MaxCommitterCommits == 2
MaxInitCommits == 2
MaxBranchCommits == 2
\* Largest number of commits in the runs of the server with requests in flight.
MaxServerCommits == 3
\* Largest number of entries in a list add_multiple_files is called with.
MaxFiles == 2
\* Largest number of commits in the runs of the scaffolding handlers.
MaxScaffoldCommits == 2
\* Largest number of commits in the runs of the commit and merge routes.
MaxRouteCommits == 3

BranchNames == {"main", "master", "feat"}
Files == {"app.py", ".gitignore", "index.js"}
\* The files add_file_with_content is called with and the contents it writes.
UserWrites ==
    {[name |-> "app.py", content |-> <<"a">>],
     [name |-> "app.py", content |-> <<"b">>],
     [name |-> ".gitignore", content |-> <<"*.tmp">>]}
\* Commit messages /repos/commit is called with.
Messages == {<<"m1">>}
Users == {"u1", "u2"}
\* The tokens POST /auth/setup is called with, and the token of each account.
Tokens == {"t1", "t2"}
AccountTokens == {[username |-> "u1", token |-> "t1"], [username |-> "u2", token |-> "t2"]}
RemoteNames == {"origin", "backup"}
\* project_type arguments of download_github_gitignore ("None" is Python's None).
ProjectTypeArgs == {"None", "Rust"}
\* The branch `git init` points HEAD at (init.defaultBranch of the machine).
InitialBranches == {"master", "main"}

\* The requests that can be in flight at the same time, and the task of a
\* request that is not in flight.
Requests == {1, 2}
IdleTask == [route |-> "", pc |-> "idle", src |-> "", tgt |-> "", msg |-> <<>>,
             current_branch |-> "", success |-> FALSE]

\* A file that does not exist (in a tree, the index or the working tree).
Absent == <<>>
\* An index entry left unmerged by a conflicting merge, and the working-tree
\* content git writes for it (the file with conflict markers).
Unmerged == <<"unmerged">>
ConflictMarkers == <<"<<<<<<<", "=======", ">>>>>>>">>
EmptyTree == [f \in Files |-> Absent]
\* os.path.basename(repo_path) of the one path modelled.
RepoBasename == "repo"

VARIABLES
    repo,       \* "none": path does not exist; "dir": a directory; "git": a repository
    username,   \* os.environ GITHUB_USERNAME ("" when unset)
    token,      \* os.environ GITHUB_TOKEN ("" when unset)
    github_api, \* the globals GITHUB_USERNAME and GITHUB_TOKEN of module github_api
    remotes,    \* the [remote "..."] entries of the repository: Seq of [name, url]
    commits,    \* commit objects in creation order: Seq of [parents, tree, msg]
    heads,      \* local branches: name -> commit number, 0 when the branch does not exist
    HEAD,       \* the branch HEAD points at (unborn when heads[HEAD] = 0)
    index,      \* the index: file -> content
    wt,         \* the working tree: file -> content
    mergeHead,  \* MERGE_HEAD: the commit being merged, 0 when no merge is in progress
    outside,    \* the files that exist outside the repository directory: a set of paths
    loop,       \* the server's event loop: the task it is running (0: none) and the
                \* handler task of every request in flight
    last        \* the call made last: handler, arguments, result and path taken

vars == <<repo, username, token, github_api, remotes, commits, heads, HEAD, index, wt,
          mergeHead, outside, loop, last>>

(***************************************************************************)
(* The repository as a record, so that git commands compose.               *)
(***************************************************************************)
Cur == [repo |-> repo, remotes |-> remotes, commits |-> commits, heads |-> heads,
        HEAD |-> HEAD, index |-> index, wt |-> wt, mergeHead |-> mergeHead]

Set(S) ==
    /\ repo' = S.repo
    /\ remotes' = S.remotes
    /\ commits' = S.commits
    /\ heads' = S.heads
    /\ HEAD' = S.HEAD
    /\ index' = S.index
    /\ wt' = S.wt
    /\ mergeHead' = S.mergeHead

Result(op, args, result, path) ==
    [op |-> op, result |-> result, path |-> path]

(***************************************************************************)
(* Git primitives.                                                         *)
(***************************************************************************)
BranchExists(S, b) == S.heads[b] # 0
HeadCommit(S) == S.heads[S.HEAD]
TreeOf(S, c) == IF c = 0 THEN EmptyTree ELSE S.commits[c].tree
HeadTree(S) == TreeOf(S, HeadCommit(S))

RECURSIVE Ancestors(_, _)
\* The commits reachable from commit c (c included); {} for c = 0.
Ancestors(S, c) ==
    IF c = 0 THEN {}
    ELSE {c} \cup UNION {Ancestors(S, p) : p \in S.commits[c].parents}

\* repo.is_dirty() as it is without untracked_files=True: untracked files are
\* not counted.
IsDirtyTrackedOnly(S) ==
    \/ S.index # HeadTree(S)
    \/ \E f \in Files : S.index[f] # Absent /\ S.wt[f] # S.index[f]

\* repo.is_dirty(untracked_files=True): index against HEAD, working tree against
\* index, untracked files.
IsDirty(S) ==
    \/ S.index # HeadTree(S)
    \/ \E f \in Files : S.index[f] # Absent /\ S.wt[f] # S.index[f]
    \/ \E f \in Files : S.index[f] = Absent /\ S.wt[f] # Absent

\* repo.git.add(A=True), and repo.git.add(".") run at the repository root.
GitAddAll(S) == [S EXCEPT !.index = S.wt]
\* repo.git.add(path)
GitAddPath(S, f) == [S EXCEPT !.index[f] = S.wt[f]]

\* A commit of the index that records no parent.
IndexCommitOrphan(S, msg) ==
    [S EXCEPT !.commits = Append(@, [parents |-> {}, tree |-> S.index, msg |-> msg]),
              !.heads[S.HEAD] = Len(S.commits) + 1]

\* repo.index.commit(msg): a commit of the index on top of HEAD, whether or not
\* the index differs from HEAD's tree; the first commit creates HEAD's branch.
IndexCommit(S, msg) ==
    LET hc == HeadCommit(S)
        c == [parents |-> IF hc = 0 THEN {} ELSE {hc}, tree |-> S.index, msg |-> msg]
    IN [S EXCEPT !.commits = Append(@, c), !.heads[S.HEAD] = Len(S.commits) + 1]

\* One path of `git checkout` / a fast-forward (git read-tree -m -u H M): h and m
\* are the path's contents in the current and the new commit, i and w its index
\* entry and working-tree file.  A path the two commits agree on keeps its local
\* changes; a path they differ on is updated when it has no local change, kept
\* when the index already holds the new content, and makes git refuse otherwise.
TwoWayFile(h, m, i, w) ==
    IF h = m \/ i = m THEN [ok |-> TRUE, i |-> i, w |-> w]
    ELSE IF i = h /\ w = i THEN [ok |-> TRUE, i |-> m, w |-> m]
    ELSE [ok |-> FALSE, i |-> i, w |-> w]

\* The index and working tree after moving from tree H to tree M, or ok = FALSE
\* when git refuses because a local change or an untracked file is in the way.
TwoWay(S, H, M) ==
    LET r == [f \in Files |-> TwoWayFile(H[f], M[f], S.index[f], S.wt[f])]
    IN [ok |-> \A f \in Files : r[f].ok,
        index |-> [f \in Files |-> r[f].i],
        wt |-> [f \in Files |-> r[f].w]]

\* repo.git.checkout(b): ok = FALSE (GitCommandError, nothing changed) when b is
\* no branch or local changes would be overwritten.
GitCheckout(S, b) ==
    IF ~BranchExists(S, b) THEN [ok |-> FALSE, S |-> S]
    ELSE LET r == TwoWay(S, HeadTree(S), TreeOf(S, S.heads[b]))
         IN IF r.ok
            THEN [ok |-> TRUE, S |-> [S EXCEPT !.HEAD = b, !.index = r.index, !.wt = r.wt]]
            ELSE [ok |-> FALSE, S |-> S]

\* repo.git.checkout("-b", b) for a name that is no branch yet: the branch is
\* created at HEAD's commit and HEAD moves to it; on an unborn HEAD only HEAD moves.
GitCheckoutNew(S, b) ==
    [S EXCEPT !.heads[b] = HeadCommit(S), !.HEAD = b]

\* repo.head.reset(index=True, working_tree=True), i.e. git reset --hard HEAD:
\* the index becomes HEAD's tree and every tracked file is rewritten from it;
\* untracked files stay.
GitResetHard(S) ==
    LET T == HeadTree(S)
    IN [S EXCEPT !.index = T,
                 !.wt = [f \in Files |->
                           IF S.index[f] = Absent /\ T[f] = Absent THEN S.wt[f] ELSE T[f]]]

\* The merge base of two commits with a common history: the common ancestor that
\* is no ancestor of another one (it is unique in the histories the bounds allow
\* to be merged with different trees).
MergeBase(S, a, b) ==
    LET common == Ancestors(S, a) \cap Ancestors(S, b)
        best == {c \in common : \A d \in common : c \in Ancestors(S, d) => d = c}
    IN IF best = {} THEN 0 ELSE CHOOSE c \in best : \A d \in best : d <= c

\* A three-way merge that always keeps the current branch's content.
ThreeWayResultOurs(b, o, t) == o

\* Three-way merge of one path whose content is b in the merge base, o in HEAD
\* and t in the merged branch.  Contents are atomic: both sides changing the
\* path differently is a conflict.
ThreeWayConflict(b, o, t) == o # t /\ b # o /\ b # t
ThreeWayResult(b, o, t) == IF o = t \/ b = t THEN o ELSE t

\* repo.git.merge(b) with the target checked out.  outcome:
\*   "up_to_date"   b is already contained in HEAD;
\*   "fast_forward" HEAD's branch moves to b's commit;
\*   "merge_commit" a merge commit is created;
\*   "conflict"     git exits 1 leaving MERGE_HEAD, unmerged index entries and
\*                  conflict markers in the working tree;
\*   "refused"      git exits non-zero before starting, because staged changes,
\*                  local modifications or untracked files would be overwritten:
\*                  nothing is changed and no MERGE_HEAD is written.
GitMerge(S, b) ==
    LET ours == HeadCommit(S)
        theirs == S.heads[b]
        O == TreeOf(S, ours)
        T == TreeOf(S, theirs)
        B == TreeOf(S, MergeBase(S, ours, theirs))
        conflict == {f \in Files : ThreeWayConflict(B[f], O[f], T[f])}
        merged == [f \in Files |-> ThreeWayResult(B[f], O[f], T[f])]
        touched == {f \in Files : f \in conflict \/ merged[f] # O[f]}
        ff == TwoWay(S, O, T)
    IN IF theirs \in Ancestors(S, ours) THEN [outcome |-> "up_to_date", S |-> S]
       ELSE IF ours \in Ancestors(S, theirs)
       THEN IF ff.ok
            THEN [outcome |-> "fast_forward",
                  S |-> [S EXCEPT !.heads[S.HEAD] = theirs, !.index = ff.index, !.wt = ff.wt]]
            ELSE [outcome |-> "refused", S |-> S]
       ELSE IF S.index # O \/ \E f \in touched : S.wt[f] # O[f]
       THEN [outcome |-> "refused", S |-> S]
       ELSE IF conflict # {}
       THEN [outcome |-> "conflict",
             S |-> [S EXCEPT
                     !.mergeHead = theirs,
                     !.index = [f \in Files |-> IF f \in conflict THEN Unmerged ELSE merged[f]],
                     !.wt = [f \in Files |-> IF f \in conflict THEN ConflictMarkers
                                             ELSE IF f \in touched THEN merged[f]
                                             ELSE S.wt[f]]]]
       ELSE [outcome |-> "merge_commit",
             S |-> [S EXCEPT
                     !.commits = Append(@, [parents |-> {ours, theirs}, tree |-> merged,
                                            msg |-> <<"Merge branch", b>>]),
                     !.heads[S.HEAD] = Len(S.commits) + 1,
                     !.index = merged,
                     !.wt = [f \in Files |-> IF f \in touched THEN merged[f] ELSE S.wt[f]]]]

\* repo.git.merge("--abort"), i.e. git reset --merge: fails (GitCommandError) when
\* there is no MERGE_HEAD; otherwise the index goes back to HEAD's tree and the
\* files the merge had touched are rewritten from it.
GitMergeAbort(S) ==
    LET O == HeadTree(S)
    IN IF S.mergeHead = 0 THEN [ok |-> FALSE, S |-> S]
       ELSE [ok |-> TRUE,
             S |-> [S EXCEPT !.mergeHead = 0,
                             !.index = O,
                             !.wt = [f \in Files |-> IF S.index[f] # O[f] THEN O[f]
                                                     ELSE S.wt[f]]]]

(***************************************************************************)
(* Environment: credentials, file writes.                                  *)
(***************************************************************************)
\* f"https://github.com/{github_username}/{repo_name}.git"
DeriveUrl(user, name) == <<"https://github.com/", user, "/", name, ".git">>

RemoteExists(S, n) == \E i \in 1..Len(S.remotes) : S.remotes[i].name = n
\* repo.delete_remote(n): every entry of that name goes.
DeleteRemote(S, n) ==
    [S EXCEPT !.remotes = SelectSeq(@, LAMBDA r : r.name # n)]
\* repo.create_remote(n, url), which git refuses when the name is taken.
CreateRemote(S, n, url) ==
    [S EXCEPT !.remotes = Append(@, [name |-> n, url |-> url])]

Init ==
    /\ repo = "none"
    /\ username \in {""} \cup Users
    /\ token \in {""} \cup Tokens
    /\ github_api = [GITHUB_USERNAME |-> username, GITHUB_TOKEN |-> token]
    /\ remotes = <<>>
    /\ commits = <<>>
    /\ heads = [b \in BranchNames |-> 0]
    /\ HEAD = "master"
    /\ index = EmptyTree
    /\ wt = EmptyTree
    /\ mergeHead = 0
    /\ outside = {}
    /\ loop = [running |-> 0, tasks |-> [r \in Requests |-> IdleTask]]
    /\ last = Result("start", <<>>, "", "")

\* POST /auth/setup: os.environ["GITHUB_USERNAME"] = credentials.username and
\* os.environ["GITHUB_TOKEN"] = credentials.token.
setup_credentials(u, t) ==
    /\ username' = u
    /\ token' = t
    /\ last' = Result("setup_credentials", <<u, t>>, "success", "")
    /\ UNCHANGED github_api
    /\ UNCHANGED <<repo, remotes, commits, heads, HEAD, index, wt, mergeHead, outside, loop>>

\* The names of GitHub repositories the API functions are called with.
RepoNames == {"r1", "r2"}

\* _check_token: the module's token is read from the environment again only
\* when the module has none.
CheckToken(G, envToken) ==
    IF G.GITHUB_TOKEN = "" THEN [G EXCEPT !.GITHUB_TOKEN = envToken] ELSE G

\* _make_request(method, endpoint) with the module globals G: raises when
\* there is no token, else sends the request to the endpoint with the module's
\* token in the Authorization header.
MakeRequest(G, op, endpoint) ==
    IF G.GITHUB_TOKEN = ""
    THEN [op |-> op, result |-> "GitHubAPIError", path |-> "no_token"]
    ELSE [op |-> op, result |-> "sent", path |-> "request",
          authorization |-> G.GITHUB_TOKEN, endpoint |-> endpoint]

\* list_repositories: GET /user/repos
list_repositories ==
    LET G == CheckToken(github_api, token)
    IN /\ github_api' = G
       /\ last' = MakeRequest(G, "list_repositories", <<"user", "repos">>)
       /\ UNCHANGED <<repo, username, token, remotes, commits, heads, HEAD, index, wt,
                      mergeHead, outside, loop>>

\* list_branches(repo_name): GET /repos/{GITHUB_USERNAME}/{repo_name}/branches
list_branches(repo_name) ==
    LET G == CheckToken(github_api, token)
    IN /\ github_api' = G
       /\ last' = MakeRequest(G, "list_branches",
                              <<"repos", github_api.GITHUB_USERNAME, repo_name, "branches">>)
       /\ UNCHANGED <<repo, username, token, remotes, commits, heads, HEAD, index, wt,
                      mergeHead, outside, loop>>

\* InitRemote without the deletion, adding the remote entry whatever is there.
InitRemoteNoDelete(S, user, del) ==
    [S |-> CreateRemote(S, "origin", DeriveUrl(user, RepoBasename)),
     result |-> "repo", path |-> "created"]

\* The steps of init_local_repo after Repo.init, when GITHUB_USERNAME is set:
\* delete origin if present (a failure is logged), then create it.
\* del is how `git remote rm origin` ends: "ok", "failed_kept" (it fails and the
\* remote is still configured) or "failed_removed" (it fails after removing it).
InitRemote(S, user, del) ==
    LET url == DeriveUrl(user, RepoBasename)
        D == IF RemoteExists(S, "origin") /\ del # "failed_kept"
             THEN DeleteRemote(S, "origin") ELSE S
        delFailed == RemoteExists(S, "origin") /\ del # "ok"
    IN IF RemoteExists(D, "origin")
       THEN [S |-> D, result |-> "GitCommandError",
             path |-> IF delFailed THEN "delete_failed_create_refused" ELSE "create_refused"]
       ELSE [S |-> CreateRemote(D, "origin", url), result |-> "repo",
             path |-> IF delFailed THEN "delete_failed_created"
                      ELSE IF RemoteExists(S, "origin") THEN "replaced" ELSE "created"]

\* The environment's choices that init_local_repo can observe in the current state:
\* the initial branch matters for a new repository only, the outcome of the
\* deletion only when there is an origin to delete.
InitialBranchChoices == IF repo = "git" THEN {HEAD} ELSE InitialBranches
DeleteOutcomes ==
    IF username # "" /\ RemoteExists(Cur, "origin")
    THEN {"ok", "failed_kept", "failed_removed"} ELSE {"ok"}

init_local_repo(initialBranch, del) ==
    LET \* os.makedirs(exist_ok=True); git.Repo.init: a new repository gets an unborn
        \* HEAD, an existing one is left as it is.
        R == IF repo = "git" THEN Cur
             ELSE [Cur EXCEPT !.repo = "git", !.HEAD = initialBranch]
        out == IF username = ""
               THEN [S |-> R, result |-> "repo", path |-> "no_username"]
               ELSE InitRemote(R, username, del)
    IN /\ Set(out.S)
       /\ last' = Result("init_local_repo", <<>>, out.result, out.path)
       /\ UNCHANGED <<username, token, github_api, outside, loop>>

(***************************************************************************)
(* Paths.  A path is the sequence of its components from the root; a file   *)
(* name is what a caller passes, and a first component "/" makes it         *)
(* absolute.                                                                *)
(***************************************************************************)
\* repo_path, resolved: the one repository directory modelled.
RepoPath == <<"work", RepoBasename>>
\* Another directory on the machine.
ProbePath == <<"tmp", "proj">>

\* File names that leave the repository directory or name the directory itself.
OtherNames == {"", "../evil.txt"}
\* Absolute file names below ProbePath.
ProbeNames ==
    {"/tmp/proj/app.py", "/tmp/proj/requirements.txt", "/tmp/proj/index.js",
     "/tmp/proj/package.json", "/tmp/proj/main.rs", "/tmp/proj/Cargo.toml",
     "/tmp/proj/README.md", "/tmp/proj/src/lib.rs"}
FileNames == Files \cup OtherNames \cup ProbeNames

\* name.split("/"), with "/" standing for the leading separator.
NameParts ==
    [n \in FileNames |->
        CASE n = "" -> <<>>
          [] n = "../evil.txt" -> <<"..", "evil.txt">>
          [] n = "/tmp/proj/app.py" -> <<"/", "tmp", "proj", "app.py">>
          [] n = "/tmp/proj/requirements.txt" -> <<"/", "tmp", "proj", "requirements.txt">>
          [] n = "/tmp/proj/index.js" -> <<"/", "tmp", "proj", "index.js">>
          [] n = "/tmp/proj/package.json" -> <<"/", "tmp", "proj", "package.json">>
          [] n = "/tmp/proj/main.rs" -> <<"/", "tmp", "proj", "main.rs">>
          [] n = "/tmp/proj/Cargo.toml" -> <<"/", "tmp", "proj", "Cargo.toml">>
          [] n = "/tmp/proj/README.md" -> <<"/", "tmp", "proj", "README.md">>
          [] n = "/tmp/proj/src/lib.rs" -> <<"/", "tmp", "proj", "src", "lib.rs">>
          [] OTHER -> <<n>>]

IsAbsolute(name) == NameParts[name] # <<>> /\ NameParts[name][1] = "/"

\* os.path.join(repo_path, name): an absolute name replaces repo_path.
JoinPath(base, name) ==
    IF IsAbsolute(name) THEN Tail(NameParts[name]) ELSE base \o NameParts[name]

RECURSIVE Normalize(_, _)
\* The path the operating system resolves parts to, below the directory done:
\* ".." steps back to the parent directory.
Normalize(done, parts) ==
    IF parts = <<>> THEN done
    ELSE IF Head(parts) = ".."
    THEN Normalize(IF done = <<>> THEN done ELSE SubSeq(done, 1, Len(done) - 1), Tail(parts))
    ELSE Normalize(Append(done, Head(parts)), Tail(parts))

\* The file that open(os.path.join(repo_path, name), "w") opens.
Resolve(name) == Normalize(<<>>, JoinPath(RepoPath, name))

\* Path p lies below directory d.
IsUnder(p, d) == Len(p) > Len(d) /\ SubSeq(p, 1, Len(d)) = d
\* The file of the working tree that is at path p of the repository directory.
InsideName(p) == CHOOSE f \in Files : RepoPath \o NameParts[f] = p

\* os.makedirs(os.path.dirname(full_path), exist_ok=True) followed by
\* open(full_path, "w").write(content) for full_path = os.path.join(repo_path,
\* name), on repository S with the files O outside it.  ok = FALSE when open
\* raises because full_path is the repository directory itself.
WriteFile(S, O, name, content) ==
    LET p == Resolve(name)
        D == [S EXCEPT !.repo = IF @ = "none" /\ (~IsAbsolute(name) \/ IsUnder(p, RepoPath))
                                THEN "dir" ELSE @]
    IN IF p = RepoPath THEN [ok |-> FALSE, S |-> D, outside |-> O]
       ELSE IF IsUnder(p, RepoPath)
       THEN [ok |-> TRUE, S |-> [D EXCEPT !.wt[InsideName(p)] = content], outside |-> O]
       ELSE [ok |-> TRUE, S |-> D, outside |-> O \cup {p}]

\* add_file_with_content (the definition at line 542, which replaces the one at
\* line 233): makedirs of the file's directory, then open(..., "w").write.
add_file_with_content(f, content) ==
    LET w == WriteFile(Cur, outside, f, content)
    IN /\ Set(w.S)
       /\ outside' = w.outside
       /\ last' = IF w.ok THEN Result("add_file_with_content", <<f>>, "added", "")
                  ELSE Result("add_file_with_content", <<f>>, "IsADirectoryError", "")
       /\ UNCHANGED <<username, token, github_api, loop>>

\* The entries add_multiple_files is called with: a dictionary with the keys
\* path and content, or with one of them missing.
FileEntries ==
    {[path |-> "app.py", content |-> <<"a">>],
     [path |-> ".gitignore", content |-> <<"*.tmp">>],
     [path |-> "", content |-> <<"a">>],
     [path |-> "../evil.txt", content |-> <<"a">>],
     [content |-> <<"a">>],
     [path |-> "app.py"]}
FileLists == UNION {[1..n -> FileEntries] : n \in 0..MaxFiles}

\* One iteration of the loop of add_multiple_files.  L is the state of the
\* loop: the repository, the files outside it, created_files, errors, whether
\* the local variable file_path has been assigned and its value, and whether an
\* exception has left the loop.
ProcessEntry(L, e) ==
    LET failed(path) == Append(L.errors, <<"Failed to create file", path>>)
        w == WriteFile(L.S, L.outside, e.path, e.content)
    IN IF L.raised THEN L
       ELSE IF "path" \notin DOMAIN e
       THEN \* KeyError at file_info['path']; the handler formats file_path
            IF L.bound THEN [L EXCEPT !.errors = failed(L.file_path)]
            ELSE [L EXCEPT !.raised = TRUE]
       ELSE IF "content" \notin DOMAIN e
       THEN [L EXCEPT !.bound = TRUE, !.file_path = e.path, !.errors = failed(e.path)]
       ELSE IF w.ok
       THEN [L EXCEPT !.bound = TRUE, !.file_path = e.path, !.S = w.S,
                      !.outside = w.outside, !.created_files = Append(@, e.path)]
       ELSE [L EXCEPT !.bound = TRUE, !.file_path = e.path, !.S = w.S,
                      !.errors = failed(e.path)]

RECURSIVE ProcessEntries(_, _)
\* for file_info in files: ...
ProcessEntries(L, files) ==
    IF files = <<>> THEN L ELSE ProcessEntries(ProcessEntry(L, Head(files)), Tail(files))

\* What add_multiple_files does and returns.
AddMultipleFiles(S, O, files) ==
    ProcessEntries([S |-> S, outside |-> O, created_files |-> <<>>, errors |-> <<>>,
                    bound |-> FALSE, file_path |-> "", raised |-> FALSE], files)

add_multiple_files(files) ==
    LET L == AddMultipleFiles(Cur, outside, files)
    IN /\ Set(L.S)
       /\ outside' = L.outside
       /\ last' = IF L.raised
                  THEN [op |-> "add_multiple_files", result |-> "UnboundLocalError",
                        path |-> "raised"]
                  ELSE [op |-> "add_multiple_files", result |-> "dict", path |-> "returned",
                        success |-> L.errors = <<>>,
                        created_files |-> L.created_files, errors |-> L.errors]
       /\ UNCHANGED <<username, token, github_api, loop>>

(***************************************************************************)
(* Branch Manager.                                                         *)
(***************************************************************************)
\* create_branch that creates the branch without moving HEAD to it.
CreateBranchNoSwitch(S, b) ==
    IF BranchExists(S, b)
    THEN [S |-> S, result |-> "already exists and checked out", path |-> "existed"]
    ELSE [S |-> [S EXCEPT !.heads[b] = HeadCommit(S)],
          result |-> "created and checked out", path |-> "created"]

\* What create_branch does to the repository and what it returns.
CreateBranch(S, b) ==
    LET co == GitCheckout(S, b)
    IN IF BranchExists(S, b)
       THEN IF co.ok
            THEN [S |-> co.S, result |-> "already exists and checked out", path |-> "existed"]
            ELSE [S |-> S, result |-> "GitCommandError", path |-> "checkout_refused"]
       ELSE IF HeadCommit(S) = 0
       THEN \* repo.create_head: there is no commit to create the branch at
            [S |-> S, result |-> "GitCommandError", path |-> "no_commit"]
       ELSE [S |-> GitResetHard([S EXCEPT !.heads[b] = HeadCommit(S), !.HEAD = b]),
             result |-> "created and checked out", path |-> "created"]

create_branch(b) ==
    LET out == IF repo # "git"
               THEN [S |-> Cur, result |-> "InvalidGitRepositoryError", path |-> "no_repo"]
               ELSE CreateBranch(Cur, b)
    IN /\ Set(out.S)
       /\ last' = Result("create_branch", <<b>>, out.result, out.path)
       /\ UNCHANGED <<username, token, github_api, outside, loop>>

\* ensure_main_branch as the module binds it: the definition at line 214, which
\* replaces the one at line 66.  refFound is what
\* `"origin/main" in repo.remote().refs` evaluates to, pushOk whether
\* `git push --set-upstream origin main` succeeds.
EnsureMainBranch(S, refFound, pushOk) ==
    LET M == IF ~BranchExists(S, "main") THEN GitCheckoutNew(S, "main") ELSE S
    IN IF RemoteExists(M, "origin") /\ refFound /\ ~pushOk
       THEN [S |-> M, result |-> "GitCommandError", path |-> "push_failed"]
       ELSE [S |-> M, result |-> "True",
             path |-> IF BranchExists(S, "main") THEN "main_existed" ELSE "main_created"]

ensure_main_branch(refFound, pushOk) ==
    LET out == IF repo # "git"
               THEN [S |-> Cur, result |-> "InvalidGitRepositoryError", path |-> "no_repo"]
               ELSE EnsureMainBranch(Cur, refFound, pushOk)
    IN /\ Set(out.S)
       /\ last' = Result("ensure_main_branch", <<>>, out.result, out.path)
       /\ UNCHANGED <<username, token, github_api, outside, loop>>

(***************************************************************************)
(* Change Stager/Committer.                                                *)
(***************************************************************************)
\* add_and_commit without the is_dirty check.
AddAndCommitUnconditional(S, msg) ==
    [S |-> IndexCommit(GitAddAll(S), msg), result |-> "True", path |-> "committed"]

\* What add_and_commit does to the repository and what it returns.
AddAndCommit(S, msg) ==
    IF ~IsDirty(S)
    THEN [S |-> S, result |-> "False", path |-> "nothing_to_commit"]
    ELSE [S |-> IndexCommit(GitAddAll(S), msg), result |-> "True", path |-> "committed"]

add_and_commit(msg) ==
    LET out == IF repo # "git"
               THEN [S |-> Cur, result |-> "InvalidGitRepositoryError", path |-> "no_repo"]
               ELSE AddAndCommit(Cur, msg)
    IN /\ Set(out.S)
       /\ last' = Result("add_and_commit", <<msg>>, out.result, out.path)
       /\ UNCHANGED <<username, token, github_api, outside, loop>>

\* add_and_commit(repo_path, msg), from opening the repository on.
AddAndCommitCall(S, msg) ==
    IF S.repo # "git"
    THEN [S |-> S, result |-> "InvalidGitRepositoryError", path |-> "no_repo"]
    ELSE AddAndCommit(S, msg)

\* A commit route that answers with what add_and_commit returned.
CommitChangesReportResult(S, msg) ==
    LET out == AddAndCommitCall(S, msg)
    IN IF out.result \in {"True", "False"}
       THEN [S |-> out.S, result |-> IF out.result = "True" THEN "success" ELSE "failure",
             path |-> out.path, success |-> out.result = "True", returned |-> out.result,
             message |-> IF out.result = "True"
                         THEN <<"Changes committed with message:", msg>>
                         ELSE <<"No changes to commit">>]
       ELSE [S |-> out.S, result |-> "HTTP 500", path |-> out.path, success |-> FALSE,
             returned |-> out.result, message |-> <<out.result>>]

\* POST /repos/commit: what the route does and answers.  returned is what
\* add_and_commit returned or raised.
CommitChanges(S, msg) ==
    LET out == AddAndCommitCall(S, msg)
    IN IF out.result \in {"True", "False"}
       THEN [S |-> out.S, result |-> "success", path |-> out.path, success |-> TRUE,
             returned |-> out.result,
             message |-> <<"Changes committed with message:", msg>>]
       ELSE [S |-> out.S, result |-> "HTTP 500", path |-> out.path, success |-> FALSE,
             returned |-> out.result, message |-> <<out.result>>]

commit_changes(msg) ==
    LET out == CommitChanges(Cur, msg)
    IN /\ Set(out.S)
       /\ last' = [op |-> "commit_changes", result |-> out.result, path |-> out.path,
                   success |-> out.success, returned |-> out.returned,
                   message |-> out.message]
       /\ UNCHANGED <<username, token, github_api, outside, loop>>

\* POST /repos/add-all: git add -A, or git add . at the repository root.
add_all_changes(includeUntracked) ==
    LET out == IF repo # "git"
               THEN [S |-> Cur, result |-> "HTTP 500", path |-> "no_repo"]
               ELSE [S |-> GitAddAll(Cur), result |-> "success",
                     path |-> IF includeUntracked THEN "add -A" ELSE "add ."]
    IN /\ Set(out.S)
       /\ last' = Result("add_all_changes", <<includeUntracked>>, out.result, out.path)
       /\ UNCHANGED <<username, token, github_api, outside, loop>>

\* What push_changes does after it has opened the repository.  pushOk is whether
\* origin.push(branch) succeeds; it cannot when the branch has no commit.
PushChanges(S, user, remoteName, branch, pushOk) ==
    LET R == IF RemoteExists(S, remoteName) THEN S
             ELSE CreateRemote(S, remoteName, DeriveUrl(user, RepoBasename))
        B == IF ~BranchExists(R, branch) THEN GitCheckoutNew(R, branch) ELSE R
        C == IF IsDirty(B)
             THEN IndexCommit(GitAddAll(B), <<"Initial commit or update">>) ELSE B
        committed == IF IsDirty(B) THEN "committed" ELSE "clean"
    IN IF user = ""
       THEN [S |-> S, result |-> "ValueError", path |-> "no_username"]
       ELSE IF pushOk /\ BranchExists(C, branch)
       THEN [S |-> C, result |-> "True", path |-> committed]
       ELSE [S |-> C, result |-> "GitCommandError", path |-> committed]

push_changes(remoteName, branch, pushOk) ==
    LET out == IF repo # "git"
               THEN [S |-> Cur, result |-> "InvalidGitRepositoryError", path |-> "no_repo"]
               ELSE PushChanges(Cur, username, remoteName, branch, pushOk)
    IN /\ Set(out.S)
       /\ last' = Result("push_changes", <<remoteName, branch>>, out.result, out.path)
       /\ UNCHANGED <<username, token, github_api, outside, loop>>

(***************************************************************************)
(* Merge Coordinator.                                                      *)
(***************************************************************************)
\* MergeValidation without the check of the target branch.
MergeValidationSourceOnly(S, src, tgt) ==
    IF ~BranchExists(S, src) THEN "missing_source" ELSE "ok"

\* The two existence checks at the top of merge_branch.
MergeValidation(S, src, tgt) ==
    IF ~BranchExists(S, src) THEN "missing_source"
    ELSE IF ~BranchExists(S, tgt) THEN "missing_target"
    ELSE "ok"

\* The merge and the return to the starting branch without `git merge --abort`
\* after a failed merge.
MergeAndReturnNoAbort(S, src, tgt, cur) ==
    LET m == GitMerge(S, src)
        success == m.outcome \in {"up_to_date", "fast_forward", "merge_commit"}
        back == GitCheckout(m.S, cur)
        path == IF success THEN m.outcome ELSE "conflict_aborted"
        result == IF success THEN "True" ELSE "False"
    IN IF cur = tgt THEN [S |-> m.S, result |-> result, path |-> path]
       ELSE IF back.ok THEN [S |-> back.S, result |-> result, path |-> path]
       ELSE [S |-> m.S, result |-> "GitCommandError", path |-> "return_refused"]

\* merge_branch from `repo.git.merge(source_branch)` on, with the target checked
\* out in S and cur the branch that was checked out at the start.
MergeAndReturn(S, src, tgt, cur) ==
    LET m == GitMerge(S, src)
        ab == GitMergeAbort(m.S)
        success == m.outcome \in {"up_to_date", "fast_forward", "merge_commit"}
        A == IF success THEN m.S ELSE ab.S
        back == GitCheckout(A, cur)
        path == IF success THEN m.outcome ELSE "conflict_aborted"
        result == IF success THEN "True" ELSE "False"
    IN IF ~success /\ ~ab.ok
       THEN [S |-> m.S, result |-> "GitCommandError", path |-> "merge_refused_abort_failed"]
       ELSE IF cur = tgt THEN [S |-> A, result |-> result, path |-> path]
       ELSE IF back.ok THEN [S |-> back.S, result |-> result, path |-> path]
       ELSE [S |-> A, result |-> "GitCommandError", path |-> "return_refused"]

\* What merge_branch does to the repository and what it returns.
MergeBranch(S, src, tgt) ==
    LET v == MergeValidation(S, src, tgt)
        co == GitCheckout(S, tgt)
    IN IF v # "ok" THEN [S |-> S, result |-> "ValueError", path |-> v]
       ELSE IF ~co.ok THEN [S |-> S, result |-> "GitCommandError", path |-> "checkout_refused"]
       ELSE MergeAndReturn(co.S, src, tgt, S.HEAD)

merge_branch(src, tgt) ==
    LET out == IF repo # "git"
               THEN [S |-> Cur, result |-> "InvalidGitRepositoryError", path |-> "no_repo"]
               ELSE MergeBranch(Cur, src, tgt)
    IN /\ Set(out.S)
       /\ last' = Result("merge_branch", <<src, tgt>>, out.result, out.path)
       /\ UNCHANGED <<username, token, github_api, outside, loop>>

\* merge_branch(repo_path, src, tgt), from opening the repository on.
MergeBranchCall(S, src, tgt) ==
    IF S.repo # "git"
    THEN [S |-> S, result |-> "InvalidGitRepositoryError", path |-> "no_repo"]
    ELSE MergeBranch(S, src, tgt)

\* POST /repos/merge: what the route does and answers.  returned is what
\* merge_branch returned or raised.
MergeRoute(S, src, tgt) ==
    LET out == MergeBranchCall(S, src, tgt)
    IN IF out.result \in {"True", "False"}
       THEN [S |-> out.S, result |-> "success", path |-> out.path, success |-> TRUE,
             returned |-> out.result,
             message |-> <<"Merged", src, "into", tgt, "successfully">>]
       ELSE [S |-> out.S, result |-> "HTTP 500", path |-> out.path, success |-> FALSE,
             returned |-> out.result, message |-> <<out.result>>]

merge(src, tgt) ==
    \E out \in {MergeRoute(Cur, src, tgt)} :
       /\ Set(out.S)
       /\ last' = [op |-> "merge", result |-> out.result, path |-> out.path,
                   success |-> out.success, returned |-> out.returned,
                   message |-> out.message]
       /\ UNCHANGED <<username, token, github_api, outside, loop>>

(***************************************************************************)
(* The server: uvicorn.run(app) runs one event loop in one process, and     *)
(* every route is an `async def` whose body calls the git operations        *)
(* directly, with no await.  A request in flight is a task of the loop; the  *)
(* steps of its handler are the git commands it runs one after the other.    *)
(***************************************************************************)
\* A pool of worker threads, one per handler, as a server would use for
\* handlers that are plain functions: any handler in flight can take its
\* next step.
ThreadPoolRuns(L, r) == L.tasks[r].pc # "idle"

\* The loop can run the next step of task r: it is running r already, or it
\* is running nothing and r waits to be started.  A task gives the loop back
\* only at an await or at its end, and the handlers have no await.
EventLoopRuns(L, r) ==
    \/ L.running = r
    \/ L.running = 0 /\ L.tasks[r].pc = "pending"

\* The loop is running no handler.
EventLoopIdle(L) == L.running = 0

\* The task is in the middle of its handler.
Mid(t) == t.pc \notin {"idle", "pending"}

\* A step of a handler that ends it: the repository it leaves, what the git
\* operation returned or raised, and the path taken.
Ended(S, returned, path) ==
    [S |-> S, done |-> TRUE, returned |-> returned, path |-> path, task |-> IdleTask]
\* A step of a handler that goes on at pc.
GoesOn(S, t, pc) ==
    [S |-> S, done |-> FALSE, returned |-> "", path |-> "", task |-> [t EXCEPT !.pc = pc]]

\* The next step of commit_changes -> add_and_commit: git.Repo and is_dirty,
\* then `git add -A`, then index.commit.
CommitStep(S, t) ==
    CASE t.pc = "pending" ->
            IF S.repo # "git" THEN Ended(S, "InvalidGitRepositoryError", "no_repo")
            ELSE IF ~IsDirty(S) THEN Ended(S, "False", "nothing_to_commit")
            ELSE GoesOn(S, t, "add")
      [] t.pc = "add" -> GoesOn(GitAddAll(S), t, "commit")
      [] OTHER -> Ended(IndexCommit(S, t.msg), "True", "committed")

\* The next step of merge -> merge_branch: the checks and the checkout of the
\* target, then the merge, then the abort of a failed merge, then the return
\* to the starting branch.
MergeStep(S, t) ==
    CASE t.pc = "pending" ->
            IF S.repo # "git" THEN Ended(S, "InvalidGitRepositoryError", "no_repo")
            ELSE IF MergeValidation(S, t.src, t.tgt) # "ok"
            THEN Ended(S, "ValueError", MergeValidation(S, t.src, t.tgt))
            ELSE IF ~GitCheckout(S, t.tgt).ok
            THEN Ended(S, "GitCommandError", "checkout_refused")
            ELSE GoesOn(GitCheckout(S, t.tgt).S, [t EXCEPT !.current_branch = S.HEAD], "merge")
      [] t.pc = "merge" ->
            IF GitMerge(S, t.src).outcome \in {"up_to_date", "fast_forward", "merge_commit"}
            THEN GoesOn(GitMerge(S, t.src).S, [t EXCEPT !.success = TRUE], "return")
            ELSE GoesOn(GitMerge(S, t.src).S, [t EXCEPT !.success = FALSE], "abort")
      [] t.pc = "abort" ->
            IF GitMergeAbort(S).ok THEN GoesOn(GitMergeAbort(S).S, t, "return")
            ELSE Ended(S, "GitCommandError", "merge_refused_abort_failed")
      [] OTHER ->
            IF t.current_branch = t.tgt
            THEN Ended(S, IF t.success THEN "True" ELSE "False", "returned")
            ELSE IF GitCheckout(S, t.current_branch).ok
            THEN Ended(GitCheckout(S, t.current_branch).S,
                       IF t.success THEN "True" ELSE "False", "returned")
            ELSE Ended(S, "GitCommandError", "return_refused")

\* The next step of the handler of task t.
TaskStep(S, t) == IF t.route = "commit" THEN CommitStep(S, t) ELSE MergeStep(S, t)

\* The answer of the route of task t when its git operation has returned or
\* raised.
RouteAnswer(t, returned, path) ==
    [op |-> IF t.route = "commit" THEN "commit_changes" ELSE "merge",
     result |-> IF returned \in {"True", "False"} THEN "success" ELSE "HTTP 500",
     path |-> path,
     success |-> returned \in {"True", "False"},
     returned |-> returned,
     message |-> IF returned \notin {"True", "False"} THEN <<returned>>
                 ELSE IF t.route = "commit"
                 THEN <<"Changes committed with message:", t.msg>>
                 ELSE <<"Merged", t.src, "into", t.tgt, "successfully">>]

\* POST /repos/commit arrives as request r: its handler becomes a task.
receive_commit(r, msg) ==
    /\ loop.tasks[r].pc = "idle"
    /\ loop' = [loop EXCEPT !.tasks[r] = [IdleTask EXCEPT !.route = "commit",
                                                          !.pc = "pending", !.msg = msg]]
    /\ UNCHANGED <<repo, username, token, github_api, remotes, commits, heads, HEAD, index,
                   wt, mergeHead, outside, last>>

\* POST /repos/merge arrives as request r: its handler becomes a task.
receive_merge(r, src, tgt) ==
    /\ loop.tasks[r].pc = "idle"
    /\ loop' = [loop EXCEPT !.tasks[r] = [IdleTask EXCEPT !.route = "merge", !.pc = "pending",
                                                          !.src = src, !.tgt = tgt]]
    /\ UNCHANGED <<repo, username, token, github_api, remotes, commits, heads, HEAD, index,
                   wt, mergeHead, outside, last>>

\* The event loop runs the next step of the handler of request r.
run_handler(r) ==
    /\ loop.tasks[r].pc # "idle"
    /\ EventLoopRuns(loop, r)
    /\ \E out \in {TaskStep(Cur, loop.tasks[r])} :
          /\ Set(out.S)
          /\ loop' = [running |-> IF out.done THEN 0 ELSE r,
                      tasks |-> [loop.tasks EXCEPT ![r] = out.task]]
          /\ last' = IF out.done THEN RouteAnswer(loop.tasks[r], out.returned, out.path)
                     ELSE last
    /\ UNCHANGED <<username, token, github_api, outside>>

(***************************************************************************)
(* Project Scaffolding.                                                    *)
(***************************************************************************)
\* The built-in templates (GITIGNORE_TEMPLATES), each as the lines of its
\* string, str.split("\n"): every template begins and ends with a line break,
\* so its first and its last line are empty.
GITIGNORE_TEMPLATES ==
    [python |-> <<"", "# Byte-compiled / optimized / DLL files", "__pycache__/",
                  "*.py[cod]", "*$py.class", "", "# Virtual environment", "venv/",
                  "env/", "*.egg-info/", ".Python", "pip-log.txt",
                  "pip-delete-this-directory.txt", "", "# IDE settings", ".vscode/",
                  ".idea/", "*.swp", "">>,
     node |-> <<"", "# Node.js dependencies", "node_modules/", "npm-debug.log",
                "yarn-error.log", "">>,
     rust |-> <<"", "# Rust specific", "/target/", "**/*.rs.bk", "Cargo.lock", "">>,
     general |-> <<"", "# Logs", "logs", "*.log", "npm-debug.log*", "yarn-debug.log*",
                   "yarn-error.log*", "", "# OS files", ".DS_Store", "Thumbs.db", "">>]

\* GITIGNORE_TEMPLATES.get(ptype, GITIGNORE_TEMPLATES["general"])
TemplateOf(ptype) ==
    IF ptype \in DOMAIN GITIGNORE_TEMPLATES THEN GITIGNORE_TEMPLATES[ptype]
    ELSE GITIGNORE_TEMPLATES["general"]

\* The file names a top-level listing is drawn from, each with the suffix that
\* str.endswith sees.
ListingNames ==
    {"app.py", "requirements.txt", "index.js", "package.json", "main.rs",
     "Cargo.toml", "README.md", ".gitignore", ".git", "src"}
SuffixOf ==
    [n \in ListingNames |->
        CASE n = "app.py" -> ".py"
          [] n = "index.js" -> ".js"
          [] n = "main.rs" -> ".rs"
          [] n \in {"requirements.txt"} -> ".txt"
          [] n \in {"package.json"} -> ".json"
          [] n = "Cargo.toml" -> ".toml"
          [] n = "README.md" -> ".md"
          [] OTHER -> n]
EndsWith(n, suffix) == SuffixOf[n] = suffix

\* Detection by suffix alone, without the manifest names.
DetectProjectTypeSuffixOnly(pathExists, files) ==
    LET py == IF \E f \in files : EndsWith(f, ".py") THEN {"python"} ELSE {}
        js == IF \E f \in files : EndsWith(f, ".js") THEN {"node"} ELSE {}
        rs == IF \E f \in files : EndsWith(f, ".rs") THEN {"rust"} ELSE {}
        found == py \cup js \cup rs
    IN IF ~pathExists \/ found = {} THEN {"general"} ELSE found

\* detect_project_type as a set: pathExists is os.path.exists(repo_path), files
\* is os.listdir(repo_path).
DetectProjectType(pathExists, files) ==
    LET py == IF (\E f \in files : EndsWith(f, ".py")) \/ "requirements.txt" \in files
              THEN {"python"} ELSE {}
        js == IF (\E f \in files : EndsWith(f, ".js")) \/ "package.json" \in files
              THEN {"node"} ELSE {}
        rs == IF (\E f \in files : EndsWith(f, ".rs")) \/ "Cargo.toml" \in files
              THEN {"rust"} ELSE {}
        found == py \cup js \cup rs
    IN IF ~pathExists \/ found = {} THEN {"general"} ELSE found

\* list(project_types): the orders in which a set of strings can be iterated.
Orders(T) ==
    {s \in [1..Cardinality(T) -> T] : \A i, j \in 1..Cardinality(T) : s[i] = s[j] => i = j}

\* The template of the first type of the list alone.
JoinFirstTemplate(types) ==
    IF types = <<>> THEN <<>> ELSE TemplateOf(Head(types))

RECURSIVE JoinTemplates(_)
\* "\n".join(template of each type, in list order), as lines: the lines of the
\* joined string are the lines of its parts, one after the other.
JoinTemplates(types) ==
    IF types = <<>> THEN <<>>
    ELSE TemplateOf(Head(types)) \o JoinTemplates(Tail(types))

RECURSIVE StripLines(_)
\* str.strip() on the lines of a string none of whose non-empty lines begins or
\* ends with whitespace: the empty lines at both ends are dropped.
StripLines(lines) ==
    IF lines = <<>> THEN <<>>
    ELSE IF Head(lines) = "" THEN StripLines(Tail(lines))
    ELSE IF lines[Len(lines)] = "" THEN StripLines(SubSeq(lines, 1, Len(lines) - 1))
    ELSE lines

\* os.listdir(repo_path), as far as detection reads it.
Listing(S) == {f \in Files : S.wt[f] # Absent}

\* The directories detect_project_type is called on.
DetectPaths == {RepoPath, ProbePath}
\* os.path.exists(d)
PathExists(d) ==
    IF d = RepoPath THEN repo # "none" ELSE \E p \in outside : IsUnder(p, d)
\* os.listdir(d): the entries directly in d, files and directories alike.
ListDir(d) ==
    IF d = RepoPath THEN Listing(Cur) \cup (IF repo = "git" THEN {".git"} ELSE {})
    ELSE {p[Len(d) + 1] : p \in {q \in outside : IsUnder(q, d)}}

\* detect_project_type(d); types is the returned list as a set.
detect_project_type(d) ==
    /\ last' = [op |-> "detect_project_type", result |-> "list", path |-> "",
                types |-> DetectProjectType(PathExists(d), ListDir(d))]
    /\ UNCHANGED <<repo, username, token, github_api, remotes, commits, heads, HEAD,
                   index, wt, mergeHead, outside, loop>>

\* The try block that commits the ignore file (in generate_gitignore and in
\* download_github_gitignore): outside a repository git.Repo raises and the
\* exception is logged; inside, .gitignore is staged and the index committed.
CommitIgnoreFile(S, msg) ==
    IF S.repo # "git" THEN S ELSE IndexCommit(GitAddPath(S, ".gitignore"), msg)

\* What generate_gitignore does and returns; types is list(detected types).
GenerateGitignore(S, types) ==
    IF S.repo = "none"
    THEN [S |-> S, result |-> "FileNotFoundError", path |-> "no_directory"]
    ELSE [S |-> CommitIgnoreFile([S EXCEPT !.wt[".gitignore"] =
                                                StripLines(JoinTemplates(types))],
                                 <<"Add .gitignore for">> \o types \o <<"project">>),
          result |-> "gitignore_path",
          path |-> IF S.repo = "git" THEN "generated_committed" ELSE "generated_commit_failed"]

generate_gitignore(types) ==
    LET out == GenerateGitignore(Cur, types)
    IN /\ Set(out.S)
       /\ last' = Result("generate_gitignore", <<>>, out.result, out.path)
       /\ UNCHANGED <<username, token, github_api, outside, loop>>

\* str.capitalize() of the type names detection returns.
Capitalize(t) ==
    CASE t = "python" -> "Python"
      [] t = "node" -> "Node"
      [] t = "rust" -> "Rust"
      [] t = "general" -> "General"
      [] OTHER -> t

\* A download that ends without the local fallback: nothing is written when the
\* request does not answer 200.
DownloadWithoutFallback(S, arg, types, http) ==
    LET ptype == IF arg = "None" THEN Capitalize(types[1]) ELSE arg
    IN IF http = "200" /\ S.repo # "none"
       THEN [S |-> CommitIgnoreFile([S EXCEPT !.wt[".gitignore"] = <<"github template", ptype>>],
                                    <<"Add GitHub's", ptype, ".gitignore template">>),
             result |-> "gitignore_path",
             path |-> IF S.repo = "git" THEN "downloaded_committed"
                      ELSE "downloaded_commit_failed"]
       ELSE [S |-> S, result |-> "gitignore_path", path |-> "generated_commit_failed"]

\* What download_github_gitignore does and returns.  arg is project_type ("None"
\* for None), types is list(detected types), http is how requests.get ends: "200",
\* "404" (any other status) or "error" (a transport error is raised).
DownloadGithubGitignore(S, arg, types, http) ==
    LET ptype == IF arg = "None" THEN Capitalize(types[1]) ELSE arg
    IN IF http = "200" /\ S.repo # "none"
       THEN [S |-> CommitIgnoreFile([S EXCEPT !.wt[".gitignore"] = <<"github template", ptype>>],
                                    <<"Add GitHub's", ptype, ".gitignore template">>),
             result |-> "gitignore_path",
             path |-> IF S.repo = "git" THEN "downloaded_committed"
                      ELSE "downloaded_commit_failed"]
       ELSE GenerateGitignore(S, types)

download_github_gitignore(arg, types, http) ==
    LET out == DownloadGithubGitignore(Cur, arg, types, http)
    IN /\ Set(out.S)
       /\ last' = Result("download_github_gitignore", <<arg>>, out.result, out.path)
       /\ UNCHANGED <<username, token, github_api, outside, loop>>

\* The commits of the next state are within a specification's bound.
Within(n) == Len(commits') <= n

HttpOutcomes == {"200", "404", "error"}
DetectedOrders == Orders(DetectProjectType(repo # "none", Listing(Cur)))

Next ==
    \/ \E c \in AccountTokens : setup_credentials(c.username, c.token)
    \/ \E b \in InitialBranchChoices, del \in DeleteOutcomes : init_local_repo(b, del)
    \/ \E w \in UserWrites : add_file_with_content(w.name, w.content)
    \/ \E m \in Messages : add_and_commit(m) /\ Within(MaxCommits)
    \/ \E u \in BOOLEAN : add_all_changes(u)
    \/ \E b \in BranchNames : create_branch(b)
    \/ \E r \in BOOLEAN, p \in BOOLEAN : ensure_main_branch(r, p)
    \/ \E n \in RemoteNames, b \in BranchNames, p \in BOOLEAN :
          push_changes(n, b, p) /\ Within(MaxCommits)
    \/ \E a \in BranchNames, b \in BranchNames : merge_branch(a, b) /\ Within(MaxCommits)
    \/ \E t \in DetectedOrders : generate_gitignore(t) /\ Within(MaxCommits)
    \/ \E a \in ProjectTypeArgs, t \in DetectedOrders, h \in HttpOutcomes :
          download_github_gitignore(a, t, h) /\ Within(MaxCommits)
    \/ \E files \in FileLists : add_multiple_files(files)
    \/ \E d \in DetectPaths : detect_project_type(d)
    \/ \E m \in Messages : commit_changes(m) /\ Within(MaxCommits)
    \/ list_repositories
    \/ \E r \in RepoNames : list_branches(r)
    \/ \E a \in BranchNames, b \in BranchNames : merge(a, b) /\ Within(MaxCommits)
    \/ \E r \in Requests, m \in Messages : receive_commit(r, m)
    \/ \E r \in Requests, a \in BranchNames, b \in BranchNames : receive_merge(r, a, b)
    \/ \E r \in Requests : run_handler(r) /\ Within(MaxCommits)

\* Every handler, in any order.
Spec == Init /\ [][Next]_vars

(***************************************************************************)
(* The Merge Coordinator with the handlers that build its inputs: two       *)
(* branches with histories deep enough to fast-forward, to conflict and to  *)
(* need a merge commit, and working trees with uncommitted changes.         *)
(***************************************************************************)
InitNoUser == Init /\ username = "" /\ token = ""
MergeBranches == {"main", "feat"}

NextMerge ==
    \/ init_local_repo("main", "ok")
    \/ \E w \in UserWrites : add_file_with_content(w.name, w.content)
    \/ \E m \in Messages : add_and_commit(m) /\ Within(MaxMergeCommits)
    \/ \E b \in MergeBranches : create_branch(b)
    \/ \E a \in MergeBranches, b \in MergeBranches :
          merge_branch(a, b) /\ Within(MaxMergeCommits)

SpecMerge == InitNoUser /\ [][NextMerge]_vars

(***************************************************************************)
(* The same handlers on three branches, so that a merge can be started from *)
(* a branch that is neither its source nor its target.                      *)
(***************************************************************************)
NextMergeWide ==
    \/ init_local_repo("master", "ok")
    \/ \E w \in UserWrites : add_file_with_content(w.name, w.content)
    \/ \E m \in Messages : add_and_commit(m) /\ Within(MaxWideCommits)
    \/ \E b \in BranchNames : create_branch(b)
    \/ \E a \in BranchNames, b \in BranchNames :
          merge_branch(a, b) /\ Within(MaxWideCommits)

SpecMergeWide == InitNoUser /\ [][NextMergeWide]_vars

(***************************************************************************)
(* The Change Stager/Committer with every handler that creates commits, on  *)
(* working trees with staged, unstaged and untracked changes.               *)
(***************************************************************************)
AppWrites == {w \in UserWrites : w.name = "app.py"}

NextCommitter ==
    \/ \E b \in InitialBranchChoices : init_local_repo(b, "ok")
    \/ \E w \in AppWrites : add_file_with_content(w.name, w.content)
    \/ \E u \in BOOLEAN : add_all_changes(u)
    \/ \E m \in Messages : add_and_commit(m) /\ Within(MaxCommitterCommits)
    \/ \E r \in BOOLEAN, p \in BOOLEAN : ensure_main_branch(r, p)
    \/ \E p \in BOOLEAN : push_changes("origin", "main", p) /\ Within(MaxCommitterCommits)
    \/ \E t \in DetectedOrders : generate_gitignore(t) /\ Within(MaxCommitterCommits)
    \/ \E t \in DetectedOrders, h \in HttpOutcomes :
          download_github_gitignore("None", t, h) /\ Within(MaxCommitterCommits)

InitUser == Init /\ username = "u1" /\ token = "t1"

SpecCommitter == InitUser /\ [][NextCommitter]_vars

(***************************************************************************)
(* The Repository Initializer with the handlers that change what it reads:  *)
(* the account identity, the remotes and the history.                       *)
(***************************************************************************)
NextInit ==
    \/ \E c \in AccountTokens : setup_credentials(c.username, c.token)
    \/ \E b \in InitialBranchChoices, del \in DeleteOutcomes : init_local_repo(b, del)
    \/ \E w \in AppWrites : add_file_with_content(w.name, w.content)
    \/ \E m \in Messages : add_and_commit(m) /\ Within(MaxInitCommits)
    \/ \E n \in RemoteNames, p \in BOOLEAN :
          push_changes(n, "main", p) /\ Within(MaxInitCommits)

SpecInit == InitNoUser /\ [][NextInit]_vars

(***************************************************************************)
(* The Branch Manager with the other handlers that create, move or read     *)
(* branches, in repositories that start on master or on main.               *)
(***************************************************************************)
NextBranch ==
    \/ \E b \in InitialBranchChoices : init_local_repo(b, "ok")
    \/ \E w \in AppWrites : add_file_with_content(w.name, w.content)
    \/ \E m \in Messages : add_and_commit(m) /\ Within(MaxBranchCommits)
    \/ \E b \in BranchNames : create_branch(b)
    \/ \E r \in BOOLEAN, p \in BOOLEAN : ensure_main_branch(r, p)
    \/ \E a \in BranchNames, b \in BranchNames :
          merge_branch(a, b) /\ Within(MaxBranchCommits)
    \/ \E b \in BranchNames, p \in BOOLEAN :
          push_changes("origin", b, p) /\ Within(MaxBranchCommits)

SpecBranch == InitUser /\ [][NextBranch]_vars

(***************************************************************************)
(* The handlers that write files, called with file names of every kind:     *)
(* relative, empty, with a ".." component.                                   *)
(***************************************************************************)
WriteNames == Files \cup OtherNames \cup {"/tmp/proj/app.py"}
NextFiles ==
    \/ \E b \in InitialBranchChoices : init_local_repo(b, "ok")
    \/ \E f \in WriteNames, c \in {<<"a">>, <<"b">>} : add_file_with_content(f, c)
    \/ \E files \in FileLists : add_multiple_files(files)

SpecFiles == InitUser /\ [][NextFiles]_vars

(***************************************************************************)
(* Project Scaffolding on a directory that is or is not a repository, with  *)
(* source files of two types and changes staged before the ignore file is    *)
(* written.                                                                 *)
(***************************************************************************)
ScaffoldWrites == {"app.py", "index.js", ".gitignore"}
NextScaffold ==
    \/ init_local_repo("main", "ok")
    \/ \E f \in ScaffoldWrites : add_file_with_content(f, <<"a">>)
    \/ \E u \in BOOLEAN : add_all_changes(u)
    \/ \E t \in DetectedOrders : generate_gitignore(t) /\ Within(MaxScaffoldCommits)
    \/ \E a \in ProjectTypeArgs, t \in DetectedOrders, h \in HttpOutcomes :
          download_github_gitignore(a, t, h) /\ Within(MaxScaffoldCommits)

SpecScaffold == InitUser /\ [][NextScaffold]_vars

(***************************************************************************)
(* The commit route next to add_and_commit called directly, on clean and    *)
(* on changed working trees.                                                *)
(***************************************************************************)
NextCommitRoute ==
    \/ \E b \in InitialBranchChoices : init_local_repo(b, "ok")
    \/ \E w \in UserWrites : add_file_with_content(w.name, w.content)
    \/ \E u \in BOOLEAN : add_all_changes(u)
    \/ \E m \in Messages : add_and_commit(m) /\ Within(MaxRouteCommits)
    \/ \E m \in Messages : commit_changes(m) /\ Within(MaxRouteCommits)

SpecCommitRoute == InitUser /\ [][NextCommitRoute]_vars

(***************************************************************************)
(* The core operations called before and after the repository directory     *)
(* exists.                                                                  *)
(***************************************************************************)
NextAnyPath ==
    \/ init_local_repo("main", "ok")
    \/ add_file_with_content("app.py", <<"a">>)
    \/ \E files \in FileLists : add_multiple_files(files)
    \/ \E t \in DetectedOrders : generate_gitignore(t) /\ Within(MaxCommits)
    \/ \E m \in Messages : add_and_commit(m) /\ Within(MaxCommits)
    \/ create_branch("feat")
    \/ \E a \in MergeBranches, b \in MergeBranches : merge_branch(a, b) /\ Within(MaxCommits)

SpecAnyPath == InitUser /\ [][NextAnyPath]_vars

(***************************************************************************)
(* The credential state of the process: a server started with or without    *)
(* credentials in its environment, /auth/setup, and requests to GitHub.      *)
(***************************************************************************)
NextCredentials ==
    \/ \E u \in Users, t \in Tokens : setup_credentials(u, t)
    \/ list_repositories
    \/ \E r \in RepoNames : list_branches(r)

SpecCredentials == Init /\ [][NextCredentials]_vars

(***************************************************************************)
(* The merge route on two branches that can fast-forward, conflict or need  *)
(* a merge commit.                                                          *)
(***************************************************************************)
NextMergeRoute ==
    \/ init_local_repo("main", "ok")
    \/ \E w \in UserWrites : add_file_with_content(w.name, w.content)
    \/ \E m \in Messages : add_and_commit(m) /\ Within(MaxRouteCommits)
    \/ \E b \in MergeBranches : create_branch(b)
    \/ \E a \in MergeBranches, b \in MergeBranches : merge(a, b) /\ Within(MaxRouteCommits)

SpecMergeRoute == InitUser /\ [][NextMergeRoute]_vars

(***************************************************************************)
(* The server with two requests in flight on one repository: the commit and *)
(* the merge route as tasks of the event loop, and the handlers that build   *)
(* the branches, each run when the loop is free.                            *)
(***************************************************************************)
ServerMerges == {<<"feat", "main">>, <<"main", "feat">>}
NextServer ==
    \/ EventLoopIdle(loop) /\ init_local_repo("main", "ok")
    \/ \E w \in UserWrites : EventLoopIdle(loop) /\ add_file_with_content(w.name, w.content)
    \/ \E b \in MergeBranches : EventLoopIdle(loop) /\ create_branch(b)
    \/ \E r \in Requests, m \in Messages : receive_commit(r, m)
    \/ \E r \in Requests, st \in ServerMerges : receive_merge(r, st[1], st[2])
    \/ \E r \in Requests : run_handler(r) /\ Within(MaxServerCommits)

SpecServer == InitUser /\ [][NextServer]_vars

(***************************************************************************)
(* Project-type detection on the repository directory and on a directory    *)
(* that is filled file by file.                                             *)
(***************************************************************************)
NextDetect ==
    \/ \E b \in InitialBranchChoices : init_local_repo(b, "ok")
    \/ \E f \in ProbeNames \cup Files : add_file_with_content(f, <<"a">>)
    \/ \E d \in DetectPaths : detect_project_type(d)

SpecDetect == InitUser /\ [][NextDetect]_vars

(***************************************************************************)
(* Properties of the Merge Coordinator.                                    *)
(***************************************************************************)
\* The step is a call of merge_branch that got past the two existence checks.
MergeCalledOnBranches ==
    last'.op = "merge_branch" /\ last'.path \notin {"no_repo", "missing_source", "missing_target"}

\* C1: whenever merge_branch finishes on two existing branches, by returning or
\* by raising, the branch checked out is the one that was checked out when the
\* call started.
C1_OriginalBranchRestored ==
    [][MergeCalledOnBranches => HEAD' = HEAD]_vars

\* The branches src and tgt have diverged and some file was changed differently
\* on each of them since their merge base.
Conflicting(S, src, tgt) ==
    LET s == S.heads[src]
        t == S.heads[tgt]
        B == TreeOf(S, MergeBase(S, s, t))
    IN /\ s # 0 /\ t # 0
       /\ s \notin Ancestors(S, t) /\ t \notin Ancestors(S, s)
       /\ \E f \in Files : /\ TreeOf(S, s)[f] # TreeOf(S, t)[f]
                           /\ TreeOf(S, s)[f] # B[f]
                           /\ TreeOf(S, t)[f] # B[f]

\* C2: merging branches with conflicting changes returns False without raising,
\* leaves the target's tip and files as they were (no merge commit, no conflict
\* markers, no merge in progress) and the original branch checked out.
C2_ConflictReturnsFalse ==
    [][\A s \in BranchNames, t \in BranchNames :
          (merge_branch(s, t) /\ repo = "git" /\ Conflicting(Cur, s, t)
             /\ last'.path # "checkout_refused")
          => /\ last'.result = "False"
             /\ commits' = commits /\ heads' = heads /\ HEAD' = HEAD
             /\ mergeHead' = 0
             /\ \A f \in Files : wt'[f] # ConflictMarkers /\ index'[f] # Unmerged]_vars

\* merge_branch has met a conflict on a branch other than the one it started
\* on, aborted, returned False, and nothing of the merge is left.
C29_Witness ==
    /\ last.op = "merge_branch"
    /\ last.path = "conflict_aborted"
    /\ last.result = "False"
    /\ mergeHead = 0
    /\ HEAD = "feat"
    /\ \A f \in Files : wt[f] # ConflictMarkers /\ index[f] # Unmerged

\* C3: merge_branch with a source or target that is no local branch raises an
\* error that names the missing branch, and changes nothing: no checkout, no
\* merge, no commit, no change to index or working tree.
C3_MissingBranchNoAction ==
    [][\A s \in BranchNames, t \in BranchNames :
          (merge_branch(s, t) /\ repo = "git" /\ (heads[s] = 0 \/ heads[t] = 0))
          => /\ last'.result = "ValueError"
             /\ last'.path = IF heads[s] = 0 THEN "missing_source" ELSE "missing_target"
             /\ UNCHANGED <<repo, remotes, commits, heads, HEAD, index, wt, mergeHead>>]_vars

\* A merge was asked for into a branch that does not exist, from a branch that
\* does, in a repository with history and uncommitted changes.
C3_Witness ==
    /\ last.op = "merge_branch" /\ last.path = "missing_target"
    /\ Len(commits) >= 2
    /\ wt # index

\* The git merge command that merge_branch(src, tgt) runs in S exits non-zero.
MergeCommandFails(S, src, tgt) ==
    /\ MergeValidation(S, src, tgt) = "ok"
    /\ GitCheckout(S, tgt).ok
    /\ GitMerge(GitCheckout(S, tgt).S, src).outcome \in {"conflict", "refused"}

\* C4: every failure of the merge command, a conflict as well as a refusal to
\* start, is handled by aborting the merge and returning False instead of raising.
C4_MergeFailureReturnsFalse ==
    [][\A s \in BranchNames, t \in BranchNames :
          (merge_branch(s, t) /\ repo = "git" /\ MergeCommandFails(Cur, s, t))
          => last'.result = "False" /\ mergeHead' = 0]_vars

\* The files that branch src has added since the merge base with branch tgt and
\* that tgt neither has nor had.
AddedOnSource(S, src, tgt) ==
    LET B == TreeOf(S, MergeBase(S, S.heads[src], S.heads[tgt]))
    IN {f \in Files : /\ B[f] = Absent
                      /\ TreeOf(S, S.heads[tgt])[f] = Absent
                      /\ TreeOf(S, S.heads[src])[f] # Absent}

\* merge_branch(s, t) has returned True, t's history contains what was s's
\* history and the files s had added are in t's tree.
MergedInto(s, t) ==
    /\ last'.result = "True"
    /\ Ancestors(Cur, heads[s]) \subseteq Ancestors([Cur EXCEPT !.commits = commits'], heads'[t])
    /\ \A f \in AddedOnSource(Cur, s, t) :
          TreeOf([Cur EXCEPT !.commits = commits'], heads'[t])[f] = TreeOf(Cur, heads[s])[f]

\* C5 as stated: whenever the source branch adds a file the target does not
\* touch, merge_branch returns True, the target's history contains the source's
\* commits and the file exists on the target.
C5_AddedFileMerged ==
    [][\A s \in BranchNames, t \in BranchNames :
          (merge_branch(s, t) /\ repo = "git" /\ heads[s] # 0 /\ heads[t] # 0
             /\ AddedOnSource(Cur, s, t) # {})
          => MergedInto(s, t)]_vars

\* Nothing is staged, modified or untracked.
CleanTree(S) == S.index = HeadTree(S) /\ S.wt = S.index

\* C5: when the source branch adds a file the target does not touch, no file has
\* conflicting changes on the two branches and the working tree has no
\* uncommitted change, merge_branch returns True, the target's history contains
\* the source's commits and the file exists on the target.
C5_AddedFileMergedWhenClean ==
    [][\A s \in BranchNames, t \in BranchNames :
          (merge_branch(s, t) /\ repo = "git" /\ heads[s] # 0 /\ heads[t] # 0
             /\ AddedOnSource(Cur, s, t) # {}
             /\ ~Conflicting(Cur, s, t) /\ CleanTree(Cur))
          => MergedInto(s, t)]_vars

\* merge_branch has made a merge commit whose tree has a file that came from the
\* merged branch only, and returned with a clean tree.
C5_Witness ==
    /\ last.op = "merge_branch" /\ last.result = "True" /\ last.path = "merge_commit"
    /\ CleanTree(Cur)
    /\ \E c \in 1..Len(commits) :
          /\ Cardinality(commits[c].parents) = 2
          /\ \E f \in Files, o \in commits[c].parents, t \in commits[c].parents :
                /\ commits[o].tree[f] = Absent
                /\ commits[t].tree[f] # Absent
                /\ commits[c].tree[f] = commits[t].tree[f]
                /\ heads[HEAD] = c

(***************************************************************************)
(* Properties of the Change Stager/Committer.                              *)
(***************************************************************************)
\* C6: add_and_commit on a tree with nothing staged, modified or untracked
\* returns the "nothing to commit" outcome without raising; the commits, every
\* branch tip and the index are unchanged.
C6_CleanTreeNoCommit ==
    [][\A m \in Messages :
          (add_and_commit(m) /\ repo = "git" /\ CleanTree(Cur))
          => /\ last'.result = "False" /\ last'.path = "nothing_to_commit"
             /\ UNCHANGED <<commits, heads, HEAD, index, wt>>]_vars

\* add_and_commit has reported "nothing to commit" in a repository with history.
C6_Witness ==
    /\ last.op = "add_and_commit" /\ last.path = "nothing_to_commit"
    /\ Len(commits) >= 1 /\ CleanTree(Cur)

\* C7: add_and_commit with message m on a tree that has staged, unstaged or
\* untracked changes stages everything and creates exactly one commit, on the
\* current branch, with message m; afterwards the tree is clean.
C7_DirtyTreeOneCommit ==
    [][\A m \in Messages :
          (add_and_commit(m) /\ repo = "git" /\ ~CleanTree(Cur))
          => /\ last'.result = "True"
             /\ commits' = Append(commits,
                                  [parents |-> IF heads[HEAD] = 0 THEN {} ELSE {heads[HEAD]},
                                   tree |-> wt, msg |-> m])
             /\ heads' = [heads EXCEPT ![HEAD] = Len(commits) + 1]
             /\ HEAD' = HEAD /\ wt' = wt /\ index' = wt]_vars

\* add_and_commit has committed a tree that differs from its parent's, on top of
\* earlier history, and left the tree clean.
C7_Witness ==
    /\ last.op = "add_and_commit" /\ last.result = "True"
    /\ Len(commits) >= 2 /\ heads[HEAD] = Len(commits)
    /\ commits[Len(commits)].msg \in Messages
    /\ \E p \in commits[Len(commits)].parents : commits[p].tree # commits[Len(commits)].tree
    /\ CleanTree(Cur)

\* The operations that may create a commit.
CommittingOps ==
    {"add_and_commit", "generate_gitignore", "download_github_gitignore",
     "ensure_main_branch", "push_changes"}

\* C8: over every sequence of these operations a commit is created only when, at
\* that moment, the working tree (with what the operation itself has written)
\* or the index differs from the last commit.
C8_CommitOnlyWhenDirty ==
    [][(last'.op \in CommittingOps /\ Len(commits') > Len(commits))
       => (wt' # HeadTree(Cur) \/ index # HeadTree(Cur))]_vars

(***************************************************************************)
(* Properties of the Repository Initializer.                               *)
(***************************************************************************)
\* The entries of remotes named origin.
OriginEntries(R) == {i \in 1..Len(R) : R[i].name = "origin"}
\* There is exactly one remote named origin and its URL is the one derived from
\* the account u.
OneDerivedOrigin(R, u) ==
    /\ Cardinality(OriginEntries(R)) = 1
    /\ \A i \in OriginEntries(R) : R[i].url = DeriveUrl(u, RepoBasename)

\* C9: a call of init_local_repo on an existing repository with an account
\* configured keeps every commit, branch and file; there is never more than one
\* origin; and when the call returns, or when an earlier call for the same
\* account had returned, there is exactly one origin and its URL is the derived URL.
C9_InitTwice ==
    [][(last'.op = "init_local_repo" /\ repo = "git" /\ username # "")
       => /\ UNCHANGED <<repo, commits, heads, HEAD, index, wt, mergeHead>>
          /\ Cardinality(OriginEntries(remotes')) <= 1
          /\ (last'.result = "repo" \/ OneDerivedOrigin(remotes, username))
                => OneDerivedOrigin(remotes', username)]_vars

\* init_local_repo has returned after replacing the origin of a repository that
\* has commits.
C9_Witness ==
    /\ last.op = "init_local_repo" /\ last.result = "repo" /\ last.path = "replaced"
    /\ Len(commits) >= 1
    /\ OneDerivedOrigin(remotes, username)

\* C10: when deleting the existing origin fails, init_local_repo still completes
\* and returns the repository.
C10_DeleteFailureNonFatal ==
    [][(last'.op = "init_local_repo"
          /\ last'.path \in {"delete_failed_create_refused", "delete_failed_created"})
       => last'.result = "repo"]_vars

(***************************************************************************)
(* Properties of the Branch Manager.                                       *)
(***************************************************************************)
\* C11 as stated: for every name b that is no branch yet, create_branch(b)
\* reports "created" and leaves b checked out, and create_branch(b) called again
\* reports "already exists" and leaves b checked out.
C11_CreateTwice ==
    [][\A b \in BranchNames :
          (create_branch(b) /\ repo = "git")
          => /\ heads[b] = 0 => (last'.path = "created" /\ HEAD' = b /\ heads'[b] # 0)
             /\ (heads[b] # 0 /\ HEAD = b /\ last.path = "created")
                   => (last'.path = "existed" /\ HEAD' = b)]_vars

\* C11: in a repository whose checked-out branch has a commit, for every name b
\* that is no branch yet create_branch(b) reports "created", creates b at the
\* current commit and leaves b checked out; create_branch(b) called again
\* reports "already exists" and leaves b checked out.
C11_CreateTwiceWithCommit ==
    [][\A b \in BranchNames :
          (create_branch(b) /\ repo = "git" /\ heads[HEAD] # 0)
          => /\ heads[b] = 0
                   => /\ last'.result = "created and checked out"
                      /\ HEAD' = b /\ heads'[b] = heads[HEAD]
             /\ (heads[b] # 0 /\ HEAD = b)
                   => /\ last'.result = "already exists and checked out"
                      /\ HEAD' = b /\ heads' = heads]_vars

\* create_branch was called a second time for the branch it had just created.
C11_Witness ==
    /\ last.op = "create_branch" /\ last.path = "existed"
    /\ HEAD = "feat" /\ heads["feat"] # 0
    /\ \E b \in BranchNames : b # "feat" /\ heads[b] = heads["feat"]

\* The files git tracks in S: those in the index or in HEAD's tree.
Tracked(S) == {f \in Files : S.index[f] # Absent \/ HeadTree(S)[f] # Absent}

\* C12: create_branch for a new name keeps the uncommitted edits to tracked
\* files that were in the working tree or the index before the call.
C12_CreateKeepsEdits ==
    [][\A b \in BranchNames :
          (create_branch(b) /\ repo = "git" /\ heads[b] = 0 /\ last'.path = "created")
          => \A f \in Tracked(Cur) : wt'[f] = wt[f] /\ index'[f] = index[f]]_vars

\* The commits reachable from some local branch.
Reachable(S) == UNION {Ancestors(S, S.heads[b]) : b \in BranchNames}

\* The operations that create or move branches.
BranchOps ==
    {"create_branch", "ensure_main_branch", "merge_branch", "add_and_commit", "push_changes"}

\* C13: over every sequence of create_branch, ensure_main_branch, merge_branch,
\* add_and_commit and push_changes, a commit reachable from a local branch
\* before an operation is reachable from a local branch after it, and is the
\* same commit.
C13_HistoryNeverShrinks ==
    [][last'.op \in BranchOps
       => /\ Reachable(Cur) \subseteq
                Reachable([Cur EXCEPT !.commits = commits', !.heads = heads'])
          /\ \A c \in Reachable(Cur) : commits'[c] = commits[c]]_vars

\* Branches have been created, committed to and moved, and every commit ever
\* made is reachable from a branch.
C13_Witness ==
    /\ last.op \in {"merge_branch", "create_branch"}
    /\ Len(commits) >= 2
    /\ \E a \in BranchNames, b \in BranchNames :
          heads[a] # 0 /\ heads[b] # 0 /\ heads[a] # heads[b]
    /\ Reachable(Cur) = 1..Len(commits)

\* C14: after ensure_main_branch has returned successfully, a local branch
\* main exists and is checked out.
C14_MainCheckedOut ==
    [][(last'.op = "ensure_main_branch" /\ last'.result = "True")
       => (heads'["main"] # 0 /\ HEAD' = "main")]_vars

\* C15: ensure_main_branch on a repository with a branch master and no branch
\* main renames master: main points at master's commit, master is gone and no
\* commit was created.
C15_MasterRenamed ==
    [][(last'.op = "ensure_main_branch" /\ heads["master"] # 0 /\ heads["main"] = 0)
       => /\ heads'["main"] = heads["master"]
          /\ heads'["master"] = 0
          /\ commits' = commits]_vars

\* C16: when setting the upstream of main fails, ensure_main_branch still
\* returns success.
C16_UpstreamFailureNonFatal ==
    [][(last'.op = "ensure_main_branch" /\ last'.path = "push_failed")
       => last'.result = "True"]_vars

\* C17: in every reachable state with at least one commit a local branch main
\* exists.
C17_MainExistsOnceCommitted ==
    Len(commits) >= 1 => heads["main"] # 0

(***************************************************************************)
(* Properties of the File Writer                                            *)
(***************************************************************************)
\* The entry can be written: it has both keys and its path names a file.
Writable(e) ==
    /\ DOMAIN e = {"path", "content"}
    /\ Resolve(e.path) # RepoPath

\* C18: add_multiple_files handles every entry of the list on its own: a
\* failure of an entry at any position is recorded in errors and the later
\* entries are still written; every entry is in exactly one of created_files
\* and errors, and success is true exactly when errors is empty.
C18_EntriesIndependent ==
    [][\A files \in FileLists :
          add_multiple_files(files) =>
             /\ last'.path = "returned"
             /\ Len(last'.created_files) + Len(last'.errors) = Len(files)
             /\ \A i \in 1..Len(files) :
                   Writable(files[i]) =>
                      \E j \in 1..Len(last'.created_files) :
                         last'.created_files[j] = files[i].path
             /\ last'.success <=> (last'.errors = <<>>)]_vars

\* C19: whatever file name add_file_with_content or add_multiple_files is
\* given, no file outside the repository directory is created or overwritten.
C19_WritesStayInside ==
    [][last'.op \in {"add_file_with_content", "add_multiple_files"} =>
          outside' = outside]_vars

(***************************************************************************)
(* Properties of Project Scaffolding                                        *)
(***************************************************************************)
\* The names of the files directly in directory d.
TopLevelFiles(d) ==
    IF d = RepoPath THEN {f \in Files : wt[f] # Absent}
    ELSE {p[Len(p)] : p \in {q \in outside : IsUnder(q, d) /\ Len(q) = Len(d) + 1}}
\* The names that end in .py, .js, .rs or are the manifest of that type.
PythonNames == {"app.py", "requirements.txt"}
NodeNames == {"index.js", "package.json"}
RustNames == {"main.rs", "Cargo.toml"}

Contains(lines, x) == \E i \in 1..Len(lines) : lines[i] = x
\* The project types of the repository directory, from its top-level files.
DetectedTypes ==
    LET py == IF wt["app.py"] # Absent THEN {"python"} ELSE {}
        js == IF wt["index.js"] # Absent THEN {"node"} ELSE {}
    IN IF py \cup js = {} THEN {"general"} ELSE py \cup js
RECURSIVE Concatenation(_)
\* The built-in templates of the types in list o, one after the other.
Concatenation(o) ==
    IF o = <<>> THEN <<>> ELSE GITIGNORE_TEMPLATES[Head(o)] \o Concatenation(Tail(o))
RECURSIVE Trimmed(_)
\* The lines without the empty lines at the two ends.
Trimmed(lines) ==
    IF lines = <<>> THEN <<>>
    ELSE IF lines[Len(lines)] = "" THEN Trimmed(SubSeq(lines, 1, Len(lines) - 1))
    ELSE IF lines[1] = "" THEN Trimmed(SubSeq(lines, 2, Len(lines)))
    ELSE lines

\* C21: after generate_gitignore returns, the whole content of the ignore file
\* is the trimmed concatenation of the built-in templates of exactly the
\* detected types, whatever the file held before; for a directory detected as
\* python and node it has the patterns of both templates.
C21_IgnoreFileContent ==
    [][(last'.op = "generate_gitignore" /\ last'.result = "gitignore_path") =>
          /\ \E o \in Orders(DetectedTypes) :
                wt'[".gitignore"] = Trimmed(Concatenation(o))
          /\ DetectedTypes = {"python", "node"} =>
                /\ Contains(wt'[".gitignore"], "__pycache__/")
                /\ Contains(wt'[".gitignore"], "*.swp")
                /\ Contains(wt'[".gitignore"], "node_modules/")
                /\ Contains(wt'[".gitignore"], "yarn-error.log")]_vars

\* generate_gitignore has replaced an ignore file in a directory with a python
\* and a node source file.
C21_Witness ==
    /\ last.op = "generate_gitignore"
    /\ last.result = "gitignore_path"
    /\ wt["app.py"] # Absent /\ wt["index.js"] # Absent
    /\ Len(commits) = 2
    /\ commits[1].tree[".gitignore"] = <<"github template", "Rust">>
    /\ Contains(wt[".gitignore"], "__pycache__/")
    /\ Contains(wt[".gitignore"], "node_modules/")

\* C22: the ignore file generate_gitignore writes is a function of the set of
\* detected types: every run on a directory with the same detected types
\* writes the same file, whatever order the types are listed in.
C22_IgnoreFileDeterministic ==
    [][\A t \in DetectedOrders :
          (generate_gitignore(t) /\ last'.result = "gitignore_path") =>
             \A u \in DetectedOrders :
                GenerateGitignore(Cur, u).S.wt[".gitignore"] = wt'[".gitignore"]]_vars

\* The files whose staged content differs from HEAD's.
Staged(S) == {f \in Files : S.index[f] # HeadTree(S)[f]}

\* C23: the commit generate_gitignore creates holds the ignore file only:
\* changes to other files staged before the call are not in that commit and
\* are still staged afterwards.
C23_CommitsIgnoreFileOnly ==
    [][(last'.op = "generate_gitignore" /\ Len(commits') = Len(commits) + 1) =>
          \A f \in Staged(Cur) \ {".gitignore"} :
             /\ commits'[Len(commits')].tree[f] = HeadTree(Cur)[f]
             /\ index'[f] = index[f]
             /\ f \in Staged([Cur EXCEPT !.commits = commits', !.heads = heads',
                                         !.index = index'])]_vars

\* C24: when the template source answers with another status than 200 or the
\* request fails, download_github_gitignore returns the path of the ignore
\* file and leaves the file generate_gitignore would write for the directory,
\* with or without an explicit project type.
C24_DownloadFallsBack ==
    [][\A a \in ProjectTypeArgs, t \in DetectedOrders, h \in HttpOutcomes \ {"200"} :
          download_github_gitignore(a, t, h) =>
             /\ last'.result = "gitignore_path"
             /\ wt'[".gitignore"] = GenerateGitignore(Cur, t).S.wt[".gitignore"]
             /\ wt'[".gitignore"] = Trimmed(Concatenation(t))]_vars

\* C24 for a directory that exists.
C24_DownloadFallsBackInDirectory ==
    [][\A a \in ProjectTypeArgs, t \in DetectedOrders, h \in HttpOutcomes \ {"200"} :
          (repo # "none" /\ download_github_gitignore(a, t, h)) =>
             /\ last'.result = "gitignore_path"
             /\ wt'[".gitignore"] = GenerateGitignore(Cur, t).S.wt[".gitignore"]
             /\ wt'[".gitignore"] = Trimmed(Concatenation(t))]_vars

\* A download has fallen back to the built-in templates in a repository whose
\* ignore file held something else.
C24_Witness ==
    /\ last.op = "download_github_gitignore"
    /\ last.path = "generated_committed"
    /\ Len(commits) = 2
    /\ commits[1].tree[".gitignore"] = <<"github template", "Rust">>
    /\ wt[".gitignore"] = Trimmed(GITIGNORE_TEMPLATES["python"])

\* C25: staging with include_untracked = false stages modifications of tracked
\* files only: a file that is untracked before the call is not in the index
\* after it.
C25_UntrackedNotStaged ==
    [][(last'.op = "add_all_changes" /\ last'.path = "add .") =>
          \A f \in Files :
             (index[f] = Absent /\ HeadTree(Cur)[f] = Absent) => index'[f] = Absent]_vars

(***************************************************************************)
(* Properties of the routes                                                 *)
(***************************************************************************)
\* C26: add_and_commit answers a tree without changes with False, and the
\* /repos/commit route answers success with the message "Changes committed
\* ..." whenever add_and_commit does not raise, whether or not a commit was
\* created.
C26_CommitRouteAlwaysSuccess ==
    [][/\ (last'.op = "add_and_commit" /\ repo = "git" /\ ~IsDirty(Cur)) =>
             (last'.result = "False" /\ commits' = commits)
       /\ last'.op = "commit_changes" =>
             IF last'.returned \in {"True", "False"}
             THEN /\ last'.success
                  /\ last'.message[1] = "Changes committed with message:"
                  /\ (last'.returned = "False") = (commits' = commits)
             ELSE /\ ~last'.success
                  /\ commits' = commits]_vars

\* The route has answered success for a call that created no commit.
C26_Witness ==
    /\ last.op = "commit_changes"
    /\ last.success
    /\ last.returned = "False"
    /\ last.message[1] = "Changes committed with message:"
    /\ Len(commits) >= 1

\* The results that are exceptions.
Errors ==
    {"InvalidGitRepositoryError", "FileNotFoundError", "GitCommandError", "ValueError",
     "UnboundLocalError", "IsADirectoryError"}
\* The core operations other than the Initializer.
CoreOps ==
    {"add_file_with_content", "add_multiple_files", "generate_gitignore", "add_and_commit",
     "create_branch", "merge_branch"}

\* C27: a core operation other than the Initializer that is called with a
\* repository path that does not exist fails with an error and creates no
\* directory and no file.
C27_MissingPathNoEffect ==
    [][(repo = "none" /\ last'.op \in CoreOps) =>
          /\ last'.result \in Errors
          /\ repo' = "none"
          /\ wt' = wt
          /\ outside' = outside]_vars

(***************************************************************************)
(* Properties of the credential state                                       *)
(***************************************************************************)
\* C28: once /auth/setup has set username u and token t, every request the
\* process sends to GitHub carries t and, where its endpoint names an
\* account, names u, whatever credentials the process was started with.
\* (Before any /auth/setup the environment holds what the process was started
\* with.)
C28_RequestsUseCurrentCredentials ==
    [][(last'.op \in {"list_repositories", "list_branches"} /\ last'.result = "sent") =>
          /\ last'.authorization = token
          /\ last'.op = "list_branches" => last'.endpoint[2] = username]_vars

(***************************************************************************)
(* Properties of the exits of merge_branch and of push_changes              *)
(***************************************************************************)
\* C29: at every exit of merge_branch, by return or by exception, no merge is
\* in progress: there is no MERGE_HEAD, no unmerged index entry and no file
\* with conflict markers.
C29_NoMergeInProgress ==
    [][last'.op = "merge_branch" =>
          /\ mergeHead' = 0
          /\ \A f \in Files : wt'[f] # ConflictMarkers /\ index'[f] # Unmerged]_vars

\* C30: when push_changes(path, remote, branch) finds the working tree dirty,
\* the commit it creates is on the branch it pushes afterwards, also when that
\* branch exists and another branch is checked out at the call.
C30_AutoCommitOnPushedBranch ==
    [][\A b \in BranchNames, p \in BOOLEAN :
          (push_changes("origin", b, p) /\ Len(commits') = Len(commits) + 1) =>
             /\ heads'[b] = Len(commits')
             /\ HEAD' = b]_vars

\* C31: the /repos/merge route answers success = true with the message
\* "Merged ... successfully" only when merge_branch returned True, not when
\* the merge was aborted and merge_branch returned False.
C31_MergeRouteReportsResult ==
    [][last'.op = "merge" =>
          ((last'.success /\ last'.message[1] = "Merged") => last'.returned = "True")]_vars

(***************************************************************************)
(* Properties of the server                                                 *)
(***************************************************************************)
\* Request r's handler has taken a step.
HandlerStepped(r) == loop.tasks[r].pc # "idle" /\ loop'.tasks[r] # loop.tasks[r]
\* The repository, the files around it or the answer last given has changed.
RepositoryStepped == Cur' # Cur \/ outside' # outside \/ last' # last

\* C32: within one server process the git steps of two requests in flight on
\* the same repository never interleave: a handler takes a step, and the
\* repository changes, only when no other request is in the middle of its
\* handler, so no request sees the repository in the middle of another
\* request's merge, checkout or commit.
C32_HandlersDoNotInterleave ==
    [][\A q \in Requests :
          Mid(loop.tasks[q]) =>
             /\ \A r \in Requests \ {q} : ~HandlerStepped(r)
             /\ RepositoryStepped => HandlerStepped(q)
             /\ \A r \in Requests \ {q} : ~Mid(loop.tasks[r])]_vars

\* A merge is stopped on a conflict in the middle of its handler while a
\* second request waits for the loop.
C32_Witness ==
    \E q \in Requests, r \in Requests :
       /\ loop.tasks[q].route = "merge"
       /\ loop.tasks[q].pc = "abort"
       /\ mergeHead # 0
       /\ \E f \in Files : wt[f] = ConflictMarkers
       /\ loop.tasks[r].pc = "pending"
       /\ loop.running = q

============================================================================
